---- MODULE Spec2Model ----
(***************************************************************************)
(* billing-core: the relational schema (tables, constraints, views) and    *)
(* the React reporting client (App, Dashboard, TransactionList,            *)
(* SubscriptionList) that reads it through the supabase query builder.     *)
(*                                                                         *)
(* Time is counted in ticks, TicksPerDay ticks to a day.  SQL NULL and a   *)
(* JavaScript null are the value NULL, an integer that no column value and *)
(* no timestamp of the model takes.                                        *)
(***************************************************************************)
EXTENDS Integers, Sequences, FiniteSets, TLC

\* ------------------------------------------------------------------ bounds
MaxTx == 2
MaxSub == 2
TicksPerDay == 2
DaysPerMonth == 30
MaxDashEvents == 2
MaxListEvents == 4

\* ------------------------------------------------------- program constants
WindowDays == 30
MaxBuckets == 14
RecentLimit == 5
DefaultFee == 0

\* encodings of SQL NULL / JavaScript null and of the keyword DEFAULT: two
\* integers no column value and no timestamp of the model takes
NULL == -(10 ^ 6)
DEFAULT == NULL - 1

Now0 == (WindowDays + 3) * TicksPerDay

\* ------------------------------------------------------------ value domains
ProjectIds == {"p1", "p2"}
ExtIds == {1, 2}     \* external ids (gateway identifiers), numbered
\* row ids (UUIDs), numbered per table; 9 is the id of no row
CustomerIds == {1, 2, 3}
LogIds == {1, 2}
\* the gateway and the first customer the fixtures give each project
GatewayOf(p) == IF p = "p1" THEN 1 ELSE 2
CustomerOf(p) == IF p = "p1" THEN 1 ELSE 3

VARIABLES
    now,            \* the wall clock, in ticks
    projects,       \* table projects: set of [id, created_at]
    customers,      \* table customers: set of [id, project_id, external_id]
    transactions,   \* table transactions
    subscriptions,  \* table subscriptions
    payment_gateways,           \* table payment_gateways
    daily_revenue_snapshots,    \* table daily_revenue_snapshots
    audit_log,                  \* table audit_log: set of [id, project_id]
    webhook_logs,               \* table webhook_logs: set of [id, project_id]
    lastWrite,      \* outcome of the last SQL write: "none", "ok", "rejected"
    tz,             \* the viewer's offset from UTC, in ticks
    app,            \* App: [loading, projects, selectedProject, activeTab, fetching]
    dash,           \* Dashboard: [stats, recentTransactions, chartData, loading]
    txl,            \* TransactionList: [rows, loading, filter]
    subl,           \* SubscriptionList: [rows, loading, filter]
    fetches,        \* fetchTransactions / fetchSubscriptions calls awaiting their query
    loads,          \* fetchDashboardData calls not yet finished
    issued,         \* number of fetches the components have started
    failures,       \* number of queries that have failed
    shown           \* for each result slot of the mounted component, the call
                    \* that wrote it last and how the last call for it came back

\* the tables the reporting client never reads
otherTables == <<payment_gateways, daily_revenue_snapshots, audit_log, webhook_logs>>
dbVars == <<projects, customers, transactions, subscriptions, otherTables>>
clientVars == <<tz, app, dash, txl, subl, fetches, loads, issued, failures, shown>>

\* ------------------------------------------------------------ SQL arithmetic
\* a - b of two INTEGER values: NULL when either operand is NULL
SqlMinus(a, b) == IF a = NULL \/ b = NULL THEN NULL ELSE a - b

\* SUM(...) over the values of f: NULLs are skipped, no non-NULL value gives NULL
RECURSIVE SqlSum(_)
SqlSum(f) ==
    IF DOMAIN f = {} THEN NULL
    ELSE LET r == CHOOSE x \in DOMAIN f : TRUE
             rest == SqlSum([x \in DOMAIN f \ {r} |-> f[x]])
         IN  IF f[r] = NULL THEN rest
             ELSE IF rest = NULL THEN f[r] ELSE f[r] + rest

\* a CHECK constraint passes when its condition is TRUE or NULL (unknown)
CheckNonNeg(v) == v = NULL \/ v >= 0

\* ------------------------------------------------------- table transactions
\* net_amount INTEGER GENERATED ALWAYS AS (amount - fee_amount) STORED
GeneratedNetIgnoringFee(amount, fee_amount) == amount
GeneratedNet(amount, fee_amount) == SqlMinus(amount, fee_amount)

\* a column left out of the INSERT (or given as DEFAULT) takes its default
FeeOrDefault(v) == IF v = DEFAULT THEN DefaultFee ELSE v
CreatedOrDefault(v) == IF v = DEFAULT THEN now ELSE v

TxKeyFree(p, e, rows) == \A t \in rows : ~(t.project_id = p /\ t.external_id = e)

\* the row-level constraints of CREATE TABLE transactions
TxRowAccepted(p, c, g, e, amount, fee, net, rows) ==
    /\ p \in {q.id : q \in projects}          \* REFERENCES projects(id)
    /\ c = NULL \/ c \in {x.id : x \in customers}          \* REFERENCES customers(id)
    /\ g # NULL                                            \* UUID NOT NULL
    /\ g \in {x.id : x \in payment_gateways}     \* REFERENCES payment_gateways(id)
    /\ amount # NULL                          \* INTEGER NOT NULL
    /\ amount >= 0                            \* amount_check
    /\ CheckNonNeg(fee)                       \* fee_check
    /\ net = DEFAULT                          \* a generated column takes no value
    /\ TxKeyFree(p, e, rows)                  \* UNIQUE(project_id, external_id)

TxRow(p, c, g, e, st, amount, fee, created) ==
    [project_id |-> p, customer_id |-> c, gateway_id |-> g,
     external_id |-> e, status |-> st, amount |-> amount,
     fee_amount |-> fee, net_amount |-> GeneratedNet(amount, fee),
     created_at |-> created]

\* what an INSERT INTO transactions supplies; DEFAULT stands for a column left out
TxInput(p, c, g, e, st, amount, fee, net, created) ==
    [project_id |-> p, customer_id |-> c, gateway_id |-> g,
     external_id |-> e, status |-> st, amount |-> amount,
     fee_amount |-> fee, net_amount |-> net, created_at |-> created]

TxStatusInputs == {"succeeded", "failed"}
AmountInputs == {0, 1000}
FeeInputs == {DEFAULT, NULL, 50}
CreatedInputs == {DEFAULT, NULL, 0}

\* the keys the inserts use: two external ids in p1, and one of them again in p2
TxKeys == (ProjectIds \X ExtIds) \ {<<"p2", 2>>}

\* inserts that meet every constraint (without a customer, through the
\* project's own gateway), and inserts that break exactly one
TxInsertInputs ==
    {TxInput(k[1], NULL, GatewayOf(k[1]), k[2], st, a, f, DEFAULT, c) :
        k \in TxKeys, st \in TxStatusInputs, a \in AmountInputs,
        f \in FeeInputs, c \in CreatedInputs}
    \cup {TxInput("p1", NULL, 1, e, "succeeded", a, 50, DEFAULT, DEFAULT) :
             e \in ExtIds, a \in {NULL, -1}}
    \cup {TxInput("p1", NULL, 1, e, "succeeded", 1000, -1, DEFAULT, DEFAULT) :
             e \in ExtIds}
    \cup {TxInput("p1", NULL, 1, e, "succeeded", 1000, 50, n, DEFAULT) :
             e \in ExtIds, n \in {950, 1000}}
    \cup {TxInput("p0", NULL, 1, e, "succeeded", 1000, 50, DEFAULT, DEFAULT) :
             e \in ExtIds}
    \cup {TxInput("p1", NULL, g, e, "succeeded", 1000, 50, DEFAULT, DEFAULT) :
             e \in ExtIds, g \in {NULL, 9}}
    \cup {TxInput("p1", 9, 1, e, "succeeded", 1000, 50, DEFAULT, DEFAULT) :
             e \in ExtIds}

InsertTransaction(in) ==
    /\ Cardinality(transactions) < MaxTx
    /\ IF TxRowAccepted(in.project_id, in.customer_id, in.gateway_id,
                        in.external_id, in.amount,
                        FeeOrDefault(in.fee_amount), in.net_amount, transactions)
       THEN /\ transactions' = transactions \cup
                   {TxRow(in.project_id, in.customer_id, in.gateway_id,
                          in.external_id, in.status, in.amount,
                          FeeOrDefault(in.fee_amount), CreatedOrDefault(in.created_at))}
            /\ lastWrite' = "ok"
       ELSE /\ transactions' = transactions
            /\ lastWrite' = "rejected"
    /\ UNCHANGED <<now, projects, customers, subscriptions, otherTables, clientVars>>

\* UPDATE transactions SET <col> = v WHERE <the row t>
TxUpdateInputs ==
    ({"status"} \X TxStatusInputs)
    \cup ({"amount"} \X (AmountInputs \cup {NULL, -1}))
    \cup ({"fee_amount"} \X (FeeInputs \cup {-1}))
    \cup ({"net_amount"} \X {DEFAULT, 0, 1000})

UpdateTransaction(t, col, v) ==
    /\ t \in transactions
    /\ LET others == transactions \ {t}
           st == IF col = "status" THEN v ELSE t.status
           amount == IF col = "amount" THEN v ELSE t.amount
           fee == IF col = "fee_amount" THEN FeeOrDefault(v) ELSE t.fee_amount
           net == IF col = "net_amount" THEN v ELSE DEFAULT
       IN
       IF TxRowAccepted(t.project_id, t.customer_id, t.gateway_id, t.external_id,
                        amount, fee, net, others)
       THEN /\ transactions' = others \cup
                   {TxRow(t.project_id, t.customer_id, t.gateway_id, t.external_id,
                          st, amount, fee, t.created_at)}
            /\ lastWrite' = "ok"
       ELSE /\ transactions' = transactions
            /\ lastWrite' = "rejected"
    /\ UNCHANGED <<now, projects, customers, subscriptions, otherTables, clientVars>>

\* ------------------------------------------------------------------- views
\* DATE_TRUNC('month', created_at)::DATE, months numbered from the epoch
Month(ts) == IF ts = NULL THEN NULL ELSE (ts \div TicksPerDay) \div DaysPerMonth

SucceededAmount(t) == IF t.status = "succeeded" THEN t.amount ELSE 0
SucceededFee(t) == IF t.status = "succeeded" THEN t.fee_amount ELSE 0
SucceededNet(t) ==
    IF t.status = "succeeded" THEN SqlMinus(t.amount, t.fee_amount) ELSE 0

\* the view's total_revenue column, for one group of rows
GroupRevenueAllStatuses(g) == SqlSum([t \in g |-> t.amount])
GroupRevenue(g) == SqlSum([t \in g |-> SucceededAmount(t)])
GroupFees(g) == SqlSum([t \in g |-> SucceededFee(t)])
GroupNet(g) == SqlSum([t \in g |-> SucceededNet(t)])

\* FROM transactions t JOIN projects p ON t.project_id = p.id, without a WHERE
MonthlyJoinSucceededOnly ==
    {t \in transactions :
        t.project_id \in {q.id : q \in projects} /\ t.status = "succeeded"}
MonthlyJoin == {t \in transactions : t.project_id \in {q.id : q \in projects}}

\* ... JOIN ... GROUP BY month, p.id
monthly_revenue_by_project ==
    LET joined == MonthlyJoin
        keys == {<<Month(t.created_at), t.project_id>> : t \in joined}
        group(k) == {t \in joined : Month(t.created_at) = k[1] /\ t.project_id = k[2]}
    IN  {[month |-> k[1], project_id |-> k[2],
          total_revenue |-> GroupRevenue(group(k)),
          total_fees |-> GroupFees(group(k)),
          net_revenue |-> GroupNet(group(k))] : k \in keys}

\* ------------------------------------------------------ table subscriptions
SubKeyFree(p, e, rows) == \A s \in rows : ~(s.project_id = p /\ s.external_id = e)

\* the row-level constraints of CREATE TABLE subscriptions
SubRowAccepted(p, c, g, e, amount, rows) ==
    /\ p \in {q.id : q \in projects}          \* REFERENCES projects(id)
    /\ c # NULL                                            \* UUID NOT NULL
    /\ c \in {x.id : x \in customers}                      \* REFERENCES customers(id)
    /\ g # NULL                                            \* UUID NOT NULL
    /\ g \in {x.id : x \in payment_gateways}     \* REFERENCES payment_gateways(id)
    /\ amount # NULL                          \* INTEGER NOT NULL
    /\ amount > 0                             \* amount_check
    /\ SubKeyFree(p, e, rows)                 \* UNIQUE(project_id, external_id)

SubRow(p, c, g, e, st, amount, created) ==
    [project_id |-> p, customer_id |-> c, gateway_id |-> g,
     external_id |-> e, status |-> st, amount |-> amount, created_at |-> created]

SubInput(p, c, g, e, st, amount, created) ==
    [project_id |-> p, customer_id |-> c, gateway_id |-> g,
     external_id |-> e, status |-> st, amount |-> amount, created_at |-> created]

SubStatusInputs == {"active", "canceled"}
SubAmountInputs == {900, 2000}
SubCreatedInputs == {DEFAULT, 0}

\* inserts that meet every constraint (for the project's first customer,
\* through its own gateway), and inserts that break exactly one
SubInsertInputs ==
    {SubInput(p, CustomerOf(p), GatewayOf(p), e, st, a, c) :
        p \in ProjectIds, e \in ExtIds, st \in SubStatusInputs, a \in SubAmountInputs,
        c \in SubCreatedInputs}
    \cup {SubInput("p1", 1, 1, e, "active", a, DEFAULT) :
             e \in ExtIds, a \in {NULL, 0, -1}}
    \cup {SubInput("p0", 1, 1, e, "active", 900, DEFAULT) : e \in ExtIds}
    \cup {SubInput("p1", c, 1, e, "active", 900, DEFAULT) :
             e \in ExtIds, c \in {NULL, 9}}
    \cup {SubInput("p1", 1, g, e, "active", 900, DEFAULT) :
             e \in ExtIds, g \in {NULL, 9}}

InsertSubscription(in) ==
    /\ Cardinality(subscriptions) < MaxSub
    /\ IF SubRowAccepted(in.project_id, in.customer_id, in.gateway_id,
                         in.external_id, in.amount, subscriptions)
       THEN /\ subscriptions' = subscriptions \cup
                   {SubRow(in.project_id, in.customer_id, in.gateway_id,
                           in.external_id, in.status, in.amount,
                           CreatedOrDefault(in.created_at))}
            /\ lastWrite' = "ok"
       ELSE /\ subscriptions' = subscriptions
            /\ lastWrite' = "rejected"
    /\ UNCHANGED <<now, projects, customers, transactions, otherTables, clientVars>>

\* UPDATE subscriptions SET <col> = v WHERE <the row s>
SubUpdateInputs ==
    ({"status"} \X SubStatusInputs) \cup ({"amount"} \X (SubAmountInputs \cup {NULL, 0}))

UpdateSubscription(s, col, v) ==
    /\ s \in subscriptions
    /\ LET others == subscriptions \ {s}
           st == IF col = "status" THEN v ELSE s.status
           amount == IF col = "amount" THEN v ELSE s.amount
       IN
       IF SubRowAccepted(s.project_id, s.customer_id, s.gateway_id, s.external_id,
                         amount, others)
       THEN /\ subscriptions' = others \cup
                   {SubRow(s.project_id, s.customer_id, s.gateway_id, s.external_id,
                           st, amount, s.created_at)}
            /\ lastWrite' = "ok"
       ELSE /\ subscriptions' = subscriptions
            /\ lastWrite' = "rejected"
    /\ UNCHANGED <<now, projects, customers, transactions, otherTables, clientVars>>

\* FROM subscriptions s JOIN projects p ON s.project_id = p.id
\* WHERE s.status = 'active' GROUP BY p.id
ActiveFilterAnyStatus(s) == TRUE
ActiveFilter(s) == s.status = "active"

active_subscriptions_by_project ==
    LET joined == {s \in subscriptions :
                      s.project_id \in {q.id : q \in projects} /\ ActiveFilter(s)}
        group(p) == {s \in joined : s.project_id = p}
    IN  {[project_id |-> p,
          total_active |-> Cardinality(group(p)),
          mrr |-> SqlSum([s \in group(p) |-> s.amount])] :
             p \in {s.project_id : s \in joined}}

\* ---------------------------------------------------------- table customers
CustomerRow(id, p, e) == [id |-> id, project_id |-> p, external_id |-> e]

\* id ... DEFAULT gen_random_uuid(): an id no row of the table has
FreshId(ids, rows) == CHOOSE i \in ids : i \notin {r.id : r \in rows}

\* UNIQUE(project_id, external_id): two rows collide when both columns are
\* equal and neither is NULL
CustomerKeyUnchecked(p, e, rows) == TRUE
CustomerKeyFree(p, e, rows) ==
    e = NULL \/ \A c \in rows : ~(c.project_id = p /\ c.external_id = e)

CustomerRowAccepted(p, e, rows) ==
    /\ p \in {q.id : q \in projects}          \* NOT NULL REFERENCES projects(id)
    /\ CustomerKeyFree(p, e, rows)            \* UNIQUE(project_id, external_id)

\* what an INSERT INTO customers supplies
CustomerInsertInputs == {<<"p1", 1>>, <<"p1", NULL>>, <<"p2", 1>>, <<"p0", 1>>}

InsertCustomer(p, e) ==
    /\ \E i \in CustomerIds : i \notin {r.id : r \in customers}
    /\ IF CustomerRowAccepted(p, e, customers)
       THEN /\ customers' = customers \cup
                   {CustomerRow(FreshId(CustomerIds, customers), p, e)}
            /\ lastWrite' = "ok"
       ELSE /\ customers' = customers
            /\ lastWrite' = "rejected"
    /\ UNCHANGED <<now, projects, transactions, subscriptions, otherTables, clientVars>>

\* --------------------------------------------------- table payment_gateways
GatewayRow(id, p, name) == [id |-> id, project_id |-> p, gateway_name |-> name]

\* -------------------------------------------- table daily_revenue_snapshots
Counters ==
    {"total_revenue", "total_fees", "net_revenue", "new_customers",
     "new_subscriptions", "churned_subscriptions", "total_transactions",
     "failed_transactions"}

\* the columns CONSTRAINT amount_checks names
CheckedCounters ==
    {"total_revenue", "total_fees", "net_revenue", "new_customers",
     "new_subscriptions", "churned_subscriptions"}

DefaultCounter == 0
CounterOrDefault(v) == IF v = DEFAULT THEN DefaultCounter ELSE v

SnapshotRowAccepted(p, date, counters, rows) ==
    /\ p \in {q.id : q \in projects}          \* NOT NULL REFERENCES projects(id)
    /\ date # NULL                            \* DATE NOT NULL
    /\ \A r \in rows : ~(r.project_id = p /\ r.date = date)
                                              \* UNIQUE(project_id, date)
    /\ \A c \in CheckedCounters : CheckNonNeg(counters[c])       \* amount_checks

SnapshotRow(p, date, counters) ==
    [project_id |-> p, date |-> date, counters |-> counters]

\* what an INSERT INTO daily_revenue_snapshots supplies: one counter, the
\* others left to their default
SnapshotInput(p, date, c, v) ==
    [project_id |-> p, date |-> date,
     counters |-> [x \in Counters |-> IF x = c THEN v ELSE DEFAULT]]

SnapshotInsertInputs ==
    {SnapshotInput(p, d, c, v) :
        p \in {"p1", "p0"}, d \in {1, 2}, c \in Counters,
        v \in {DEFAULT, NULL, -1, 7}}
    \cup {SnapshotInput("p2", d, "total_revenue", 7) : d \in {1, NULL}}

InsertSnapshot(in) ==
    /\ LET counters == [c \in Counters |-> CounterOrDefault(in.counters[c])]
       IN  IF SnapshotRowAccepted(in.project_id, in.date, counters,
                                  daily_revenue_snapshots)
           THEN /\ daily_revenue_snapshots' = daily_revenue_snapshots \cup
                       {SnapshotRow(in.project_id, in.date, counters)}
                /\ lastWrite' = "ok"
           ELSE /\ daily_revenue_snapshots' = daily_revenue_snapshots
                /\ lastWrite' = "rejected"
    /\ UNCHANGED <<now, projects, customers, transactions, subscriptions,
                   payment_gateways, audit_log, webhook_logs, clientVars>>

\* ------------------------------------------- tables audit_log, webhook_logs
LogRow(id, p) == [id |-> id, project_id |-> p]

InsertAuditLog(p) ==
    /\ \E i \in LogIds : i \notin {r.id : r \in audit_log}
    /\ IF p \in {q.id : q \in projects}       \* NOT NULL REFERENCES projects(id)
       THEN /\ audit_log' = audit_log \cup {LogRow(FreshId(LogIds, audit_log), p)}
            /\ lastWrite' = "ok"
       ELSE /\ audit_log' = audit_log
            /\ lastWrite' = "rejected"
    /\ UNCHANGED <<now, projects, customers, transactions, subscriptions,
                   payment_gateways, daily_revenue_snapshots, webhook_logs,
                   clientVars>>

InsertWebhookLog(p) ==
    /\ \E i \in LogIds : i \notin {r.id : r \in webhook_logs}
    /\ IF p \in {q.id : q \in projects}       \* NOT NULL REFERENCES projects(id)
       THEN /\ webhook_logs' = webhook_logs \cup
                   {LogRow(FreshId(LogIds, webhook_logs), p)}
            /\ lastWrite' = "ok"
       ELSE /\ webhook_logs' = webhook_logs
            /\ lastWrite' = "rejected"
    /\ UNCHANGED <<now, projects, customers, transactions, subscriptions,
                   payment_gateways, daily_revenue_snapshots, audit_log,
                   clientVars>>

\* the customers and gateways the two projects start with
ExampleCustomers ==
    {CustomerRow(1, "p1", 1), CustomerRow(2, "p1", 2), CustomerRow(3, "p2", 1)}
ExampleGateways ==
    {GatewayRow(1, "p1", "stripe"), GatewayRow(2, "p2", "stripe")}

\* ------------------------------------------------- DELETE FROM projects
\* the rows ON DELETE CASCADE removes along with project p
OfProject(rows, p) == {r \in rows : r.project_id = p}

\* customer_id and gateway_id are plain REFERENCES (NO ACTION): once the
\* cascade is done, a row left behind that points at a removed customer or
\* gateway fails the statement
RefsIntact(rows, custs, gates) ==
    \A r \in rows :
        /\ r.customer_id = NULL \/ r.customer_id \in {c.id : c \in custs}
        /\ r.gateway_id \in {g.id : g \in gates}

DeleteProject(p) ==
    /\ p \in {q.id : q \in projects}
    /\ LET custs == customers \ OfProject(customers, p)
           gates == payment_gateways \ OfProject(payment_gateways, p)
           txs == transactions \ OfProject(transactions, p)
           subs == subscriptions \ OfProject(subscriptions, p)
       IN  IF RefsIntact(txs, custs, gates) /\ RefsIntact(subs, custs, gates)
           THEN /\ projects' = {q \in projects : q.id # p}
                /\ customers' = custs
                /\ payment_gateways' = gates
                /\ transactions' = txs
                /\ subscriptions' = subs
                /\ daily_revenue_snapshots' =
                       daily_revenue_snapshots \ OfProject(daily_revenue_snapshots, p)
                /\ audit_log' = audit_log \ OfProject(audit_log, p)
                /\ webhook_logs' = webhook_logs \ OfProject(webhook_logs, p)
                /\ lastWrite' = "ok"
           ELSE /\ UNCHANGED dbVars
                /\ lastWrite' = "rejected"
    /\ UNCHANGED <<now, clientVars>>


\* FROM customers c LEFT JOIN subscriptions s ON c.id = s.customer_id AND
\* s.status = 'active' JOIN projects p ON c.project_id = p.id GROUP BY p.id
MatchAnyStatus(c, s) == c.id = s.customer_id
Match(c, s) == c.id = s.customer_id /\ s.status = "active"

\* the joined rows: a customer with each matching subscription (s_key tells the
\* subscriptions apart), or once with NULL in the columns of s when none matches
LeftJoined ==
    LET custs == {c \in customers : c.project_id \in {q.id : q \in projects}}
        matches(c) == {s \in subscriptions : Match(c, s)}
    IN  UNION {IF matches(c) = {}
               THEN {[c_id |-> c.id, project_id |-> c.project_id,
                      s_customer_id |-> NULL, s_key |-> <<>>]}
               ELSE {[c_id |-> c.id, project_id |-> c.project_id,
                      s_customer_id |-> s.customer_id,
                      s_key |-> <<s.project_id, s.external_id>>] :
                          s \in matches(c)} :
                  c \in custs}

\* COUNT(DISTINCT x) counts the distinct values that are not NULL
customer_stats_by_project ==
    LET group(p) == {j \in LeftJoined : j.project_id = p}
    IN  {[project_id |-> p,
          total_customers |-> Cardinality({j.c_id : j \in group(p)} \ {NULL}),
          customers_with_subscriptions |->
              Cardinality({j.s_customer_id : j \in group(p)} \ {NULL})] :
             p \in {j.project_id : j \in LeftJoined}}

\* ============================================================ the client
\* supabase.from(table).select(...), the one kind of call the client makes:
\* it reads
SelectThenDelete ==
    transactions' = {} /\ UNCHANGED <<projects, customers, subscriptions, otherTables>>
Select == UNCHANGED dbVars

\* what `await query` yields: {data, error: null}, {data: null, error}, or a
\* rejected promise
Outcomes == {"ok", "error", "reject"}
\* the model follows a run for a number of events (fetches started by the
\* components, and queries that fail): MaxDashEvents while the Dashboard is
\* shown, whose fetches are five queries each, MaxListEvents while a list is
\* shown
Budget ==
    issued + failures <
        (IF app.activeTab = "overview" THEN MaxDashEvents ELSE MaxListEvents)
\* a query comes back with outcome o
Answers(o) ==
    IF o = "ok" THEN failures' = failures
    ELSE Budget /\ failures' = failures + 1
Data(rows) == [isNull |-> FALSE, rows |-> rows]
NullData == [isNull |-> TRUE, rows |-> <<>>]
\* data || []   and   data?.length || 0
OrEmpty(d) == IF d.isNull THEN <<>> ELSE d.rows

\* ---------------------------------------------------------------- queries
\* ORDER BY created_at DESC puts NULLs first, ASC puts them last; rows with equal
\* created_at come in either order
DescBefore(a, b) == a = NULL \/ (b # NULL /\ a >= b)
AscBefore(a, b) == b = NULL \/ (a # NULL /\ a <= b)

RECURSIVE OrderDesc(_)
OrderDesc(S) ==
    IF S = {} THEN {<<>>}
    ELSE UNION {{<<r>> \o rest : rest \in OrderDesc(S \ {r})} :
                   r \in {x \in S : \A y \in S : DescBefore(x.created_at, y.created_at)}}

RECURSIVE OrderAsc(_)
OrderAsc(S) ==
    IF S = {} THEN {<<>>}
    ELSE UNION {{<<r>> \o rest : rest \in OrderAsc(S \ {r})} :
                   r \in {x \in S : \A y \in S : AscBefore(x.created_at, y.created_at)}}

\* a result without ORDER BY: the rows in table order (here: by key)
ProjectRank(p) == IF p = "p1" THEN 1 ELSE 2
KeyBefore(a, b) ==
    \/ ProjectRank(a.project_id) < ProjectRank(b.project_id)
    \/ a.project_id = b.project_id /\ a.external_id < b.external_id
TableOrder(S) ==
    [i \in 1..Cardinality(S) |->
        CHOOSE x \in S : Cardinality({y \in S : KeyBefore(y, x)}) = i - 1]

\* .eq('project_id', projectId) [.eq('status', filter)]
StatusFilterIgnored(row, filter) == TRUE
StatusFilter(row, filter) == filter = "all" \/ row.status = filter

SelectRows(table, p, filter) ==
    {r \in table : r.project_id = p /\ StatusFilter(r, filter)}

\* .gte('created_at', thirtyDaysAgo.toISOString())
SelectSince(table, p, since) ==
    {r \in table : r.project_id = p /\ r.created_at # NULL /\ r.created_at >= since}

\* .limit(n)
Limit(seq, n) == IF Len(seq) <= n THEN seq ELSE SubSeq(seq, 1, n)

\* -------------------------------------------------------------------- App
Tabs == {"overview", "transactions", "subscriptions"}
NoProject == "none"
InitialApp ==
    [loading |-> TRUE, projects |-> <<>>, selectedProject |-> NoProject,
     activeTab |-> "overview", fetching |-> TRUE]

InitialStats ==
    [totalRevenue |-> 0, totalFees |-> 0, netRevenue |-> 0, totalTransactions |-> 0,
     totalCustomers |-> 0, activeSubscriptions |-> 0, mrr |-> 0]
InitialDash ==
    [stats |-> InitialStats, recentTransactions |-> <<>>, chartData |-> <<>>,
     loading |-> TRUE]
InitialList == [rows |-> <<>>, loading |-> TRUE, filter |-> "all"]

\* nothing has come back yet for any slot
NoCall == [project |-> NoProject, filter |-> "all", since |-> 0, nulls |-> {}]
InitialShown ==
    [rows |-> [from |-> NoCall, last |-> "none"],
     stats |-> [from |-> NoCall, last |-> "none"],
     recent |-> [from |-> NoCall, last |-> "none"],
     chart |-> [from |-> NoCall, last |-> "none"]]
\* call c came back with outcome o; `wrote` tells whether it set the slot
Came(slot, c, o, wrote) == [from |-> IF wrote THEN c ELSE slot.from, last |-> o]
CallOf(p, filter, since, nulls) ==
    [project |-> p, filter |-> filter, since |-> since, nulls |-> nulls]

\* which component App renders in <main>
Rendered(a) == ~a.loading /\ Len(a.projects) > 0
Mounted(a, tab) == Rendered(a) /\ a.activeTab = tab

\* thirtyDaysAgo.setDate(thirtyDaysAgo.getDate() - 30)
ThirtyDaysAgo(t) == t - WindowDays * TicksPerDay

\* a call of fetchDashboardData: its three tasks run concurrently; fetchStats
\* awaits three queries in turn
NewLoad(id, p) ==
    [id |-> id, project |-> p, since |-> ThirtyDaysAgo(now),
     settled |-> FALSE, stats |-> "transactions", txData |-> NullData,
     custData |-> NullData, recent |-> "pending", chart |-> "pending"]

\* a call of fetchTransactions / fetchSubscriptions: the closure's projectId, filter
NewFetch(id, comp, p, filter) ==
    [id |-> id, comp |-> comp, project |-> p, filter |-> filter]

\* the effect has no cleanup and no call is ever aborted: a call made while
\* others are pending joins them
OnlyLatestPending(pending, call) == {call}
StillPending(pending, call) == pending \cup {call}

\* the effects that run when App renders `tab` for project a2.selectedProject
\* with a fresh component.  The component that was rendered before is gone:
\* its calls still come back, but their setState calls reach no mounted
\* component and change nothing, so the model follows them no further.
MountTab(a2, tab) ==
    LET p == a2.selectedProject IN
    /\ app' = a2
    /\ issued' = issued + 1
    /\ dash' = InitialDash
    /\ txl' = InitialList
    /\ subl' = InitialList
    /\ shown' = InitialShown
    /\ loads' = IF tab = "overview" THEN {NewLoad(issued + 1, p)} ELSE {}
    /\ fetches' = IF tab = "overview" THEN {}
                  ELSE {NewFetch(issued + 1, tab, p, InitialList.filter)}

\* fetchProjects: .from('projects').select('*').order('created_at', desc)
FetchProjectsReturns(outcome) ==
    /\ app.fetching
    /\ Answers(outcome)
    /\ \E data \in IF outcome = "ok" THEN OrderDesc(projects) ELSE {<<>>} :
        LET got == outcome = "ok"
            a2 == [app EXCEPT
                     !.fetching = FALSE,
                     !.loading = FALSE,
                     !.projects = IF got THEN data ELSE @,
                     !.selectedProject =
                         IF got /\ Len(data) > 0 THEN data[1].id ELSE @]
        IN  IF Rendered(a2)
            THEN MountTab(a2, a2.activeTab)
            ELSE /\ app' = a2
                 /\ UNCHANGED <<dash, txl, subl, fetches, loads, issued, shown>>
    /\ Select
    /\ UNCHANGED <<now, tz, lastWrite>>

\* the nav buttons: setActiveTab(tab)
SetActiveTab(tab) ==
    /\ Rendered(app)
    /\ tab # app.activeTab
    /\ Budget
    /\ MountTab([app EXCEPT !.activeTab = tab], tab)
    /\ UNCHANGED <<now, tz, lastWrite, dbVars, failures>>

\* ProjectSelector onChange: onSelectProject(projects.find(...)); the mounted
\* component's effect runs again because projectId changed
SelectProject(p) ==
    /\ Rendered(app)
    /\ \E i \in 1..Len(app.projects) : app.projects[i].id = p
    /\ p # app.selectedProject
    /\ Budget
    /\ app' = [app EXCEPT !.selectedProject = p]
    /\ issued' = issued + 1
    /\ IF app.activeTab = "overview"
       THEN /\ dash' = [dash EXCEPT !.loading = TRUE]
            /\ loads' = StillPending(loads, NewLoad(issued + 1, p))
            /\ UNCHANGED <<txl, subl, fetches>>
       ELSE /\ fetches' = StillPending(fetches,
                   NewFetch(issued + 1, app.activeTab, p,
                            IF app.activeTab = "transactions" THEN txl.filter
                            ELSE subl.filter))
            /\ txl' = IF app.activeTab = "transactions"
                      THEN [txl EXCEPT !.loading = TRUE] ELSE txl
            /\ subl' = IF app.activeTab = "subscriptions"
                       THEN [subl EXCEPT !.loading = TRUE] ELSE subl
            /\ UNCHANGED <<dash, loads>>
    /\ UNCHANGED <<now, tz, lastWrite, dbVars, failures, shown>>

\* ------------------------------------- TransactionList, SubscriptionList
TxFilters == {"all", "succeeded", "pending", "failed"}
SubFilters == {"all", "active", "past_due", "canceled"}

\* the filter buttons: setFilter(f), then the effect calls the fetch.  The
\* buttons are rendered only while loading is false.
SetFilter(comp, f) ==
    /\ Mounted(app, comp)
    /\ Budget
    /\ issued' = issued + 1
    /\ fetches' = StillPending(fetches, NewFetch(issued + 1, comp, app.selectedProject, f))
    /\ IF comp = "transactions"
       THEN /\ f \in TxFilters /\ f # txl.filter /\ ~txl.loading
            /\ txl' = [txl EXCEPT !.filter = f, !.loading = TRUE]
            /\ subl' = subl
       ELSE /\ f \in SubFilters /\ f # subl.filter /\ ~subl.loading
            /\ subl' = [subl EXCEPT !.filter = f, !.loading = TRUE]
            /\ txl' = txl
    /\ UNCHANGED <<now, tz, lastWrite, dbVars, app, dash, loads, failures, shown>>

TableOf(comp) == IF comp = "transactions" THEN transactions ELSE subscriptions

\* what the list holds after `await query` of call f comes back: setRows(data ||
\* []) when there is no error, nothing on an error or a rejection; finally
\* setLoading(false)
ListAfterWithoutFinally(list, outcome, data) ==
    [list EXCEPT !.loading = outcome # "ok", !.rows = IF outcome = "ok" THEN data ELSE @]
ListAfter(list, outcome, data) ==
    [list EXCEPT !.loading = FALSE, !.rows = IF outcome = "ok" THEN data ELSE @]

ListFetchReturns(f, outcome) ==
    /\ f \in fetches
    /\ Answers(outcome)
    /\ fetches' = fetches \ {f}
    /\ shown' = [shown EXCEPT !.rows =
                    Came(@, CallOf(f.project, f.filter, 0, {}), outcome, outcome = "ok")]
    /\ Select
    /\ UNCHANGED <<now, tz, lastWrite, app, dash, loads, issued>>
    /\ \E data \in IF outcome = "ok"
                     THEN OrderDesc(SelectRows(TableOf(f.comp), f.project, f.filter))
                     ELSE {<<>>} :
        /\ txl' = IF f.comp = "transactions"
                  THEN ListAfter(txl, outcome, data) ELSE txl
        /\ subl' = IF f.comp = "subscriptions"
                   THEN ListAfter(subl, outcome, data) ELSE subl

\* -------------------------------------------------------------- Dashboard
\* sum + x in JavaScript: null counts as 0
JsAdd(sum, x) == sum + (IF x = NULL THEN 0 ELSE x)

\* vals.reduce((sum, v) => sum + v, 0)
Reduce(vals) ==
    LET sum[i \in 0..Len(vals)] == IF i = 0 THEN 0 ELSE JsAdd(sum[i - 1], vals[i])
    IN  sum[Len(vals)]

IsSucceeded(t) == t.status = "succeeded"
\* transactions?.filter(t => t.status === 'succeeded') || []
SucceededTransactionsUnfiltered(txData) == OrEmpty(txData)
SucceededTransactions(txData) == SelectSeq(OrEmpty(txData), IsSucceeded)

\* the object fetchStats passes to setStats
StatsOf(txData, custData, subData) ==
    LET succeeded == SucceededTransactions(txData)
        totalRevenue == Reduce([i \in 1..Len(succeeded) |-> succeeded[i].amount])
        totalFees == Reduce([i \in 1..Len(succeeded) |-> succeeded[i].fee_amount])
        subs == OrEmpty(subData)
    IN  [totalRevenue |-> totalRevenue,
         totalFees |-> totalFees,
         netRevenue |-> totalRevenue - totalFees,
         totalTransactions |-> Len(OrEmpty(txData)),
         totalCustomers |-> Len(OrEmpty(custData)),
         activeSubscriptions |-> Len(subs),
         mrr |-> Reduce([i \in 1..Len(subs) |-> subs[i].amount])]

\* new Date(created_at).toLocaleDateString(): the viewer's calendar day
LocalDate(ts) == (ts + tz) \div TicksPerDay

\* one turn of the forEach of fetchChartData; revenue is kept in minor units
\* (hundredths: the code adds amount / 100)
\* if (transaction.status === 'succeeded') revenue += transaction.amount / 100
BucketAmountAnyStatus(t) == t.amount
BucketAmount(t) == IF t.status = "succeeded" THEN t.amount ELSE 0

AddToBuckets(buckets, t) ==
    LET d == LocalDate(t.created_at)
        amt == BucketAmount(t)
    IN  IF \E i \in 1..Len(buckets) : buckets[i].date = d
        THEN [i \in 1..Len(buckets) |->
                 IF buckets[i].date = d
                 THEN [buckets[i] EXCEPT !.revenue = @ + amt] ELSE buckets[i]]
        ELSE Append(buckets, [date |-> d, revenue |-> amt])

\* Object.values(groupedByDay): the buckets in the order their keys were added
GroupedByDay(data) ==
    LET after[i \in 0..Len(data)] ==
            IF i = 0 THEN <<>>
            ELSE CHOOSE b \in {AddToBuckets(before, data[i]) : before \in {after[i - 1]}} :
                     TRUE
    IN  after[Len(data)]

\* .slice(-n)
SliceLast(seq, n) ==
    IF Len(seq) <= n THEN seq ELSE SubSeq(seq, Len(seq) - n + 1, Len(seq))

ChartDataUncut(data) == GroupedByDay(OrEmpty(data))
ChartDataOf(data) == SliceLast(GroupedByDay(OrEmpty(data)), MaxBuckets)

TaskOver(pc) == pc \in {"done", "rejected"}
LoadOver(l) == TaskOver(l.stats) /\ TaskOver(l.recent) /\ TaskOver(l.chart)
\* Promise.all([...]) is settled: all three fulfilled, or one rejected
AllSettled(l) ==
    \/ l.stats = "rejected" \/ l.recent = "rejected" \/ l.chart = "rejected"
    \/ (l.stats = "done" /\ l.recent = "done" /\ l.chart = "done")

\* after a task of load l moved (l2 is the load afterwards, d2 the Dashboard
\* state): when Promise.all settles now, `finally` runs setLoading(false)
AfterTask(l, l2, d2) ==
    \E m \in {l2} :
        LET settles == ~m.settled /\ AllSettled(m)
            l3 == [m EXCEPT !.settled = @ \/ settles]
        IN  /\ loads' = (loads \ {l}) \cup (IF LoadOver(l3) THEN {} ELSE {l3})
            /\ dash' = IF settles THEN [d2 EXCEPT !.loading = FALSE] ELSE d2

\* the queries of fetchStats that have come back with data: null
NullsOf(txData, custData, subData) ==
    (IF txData.isNull THEN {"transactions"} ELSE {})
    \cup (IF custData.isNull THEN {"customers"} ELSE {})
    \cup (IF subData.isNull THEN {"subscriptions"} ELSE {})

\* what the query fetchStats is waiting for yields
StatsAnswer(l, outcome) ==
    IF outcome # "ok" THEN NullData
    ELSE IF l.stats = "transactions"
    THEN Data(TableOrder(SelectRows(transactions, l.project, "all")))
    ELSE IF l.stats = "customers"
    THEN Data(TableOrder(SelectRows(customers, l.project, "all")))
    ELSE Data(TableOrder(SelectRows(subscriptions, l.project, "active")))

\* fetchStats: one of its three awaited queries comes back
StatsQueryReturns(l, outcome) ==
    /\ l \in loads
    /\ ~TaskOver(l.stats)
    /\ Answers(outcome)
    /\ shown' =
         IF outcome # "reject" /\ l.stats # "subscriptions" THEN shown
         ELSE [shown EXCEPT !.stats =
                 Came(@, CallOf(l.project, "all", 0,
                                NullsOf(l.txData, l.custData,
                                        IF outcome = "ok" THEN Data(<<>>) ELSE NullData)),
                      outcome, outcome # "reject")]
    /\ Select
    /\ UNCHANGED <<now, tz, lastWrite, app, txl, subl, fetches, issued>>
    /\ \E got \in {StatsAnswer(l, outcome)} :
           IF outcome = "reject"
           THEN AfterTask(l, [l EXCEPT !.stats = "rejected"], dash)
           ELSE IF l.stats = "transactions"
           THEN AfterTask(l, [l EXCEPT !.stats = "customers", !.txData = got], dash)
           ELSE IF l.stats = "customers"
           THEN AfterTask(l, [l EXCEPT !.stats = "subscriptions", !.custData = got], dash)
           ELSE AfterTask(l, [l EXCEPT !.stats = "done"],
                          [dash EXCEPT !.stats = StatsOf(l.txData, l.custData, got)])

\* fetchRecentTransactions: setRecentTransactions(data || [])
RecentReturns(l, outcome) ==
    /\ l \in loads
    /\ l.recent = "pending"
    /\ Answers(outcome)
    /\ shown' = [shown EXCEPT !.recent =
                    Came(@, CallOf(l.project, "all", 0,
                                   IF outcome = "ok" THEN {} ELSE {"transactions"}),
                         outcome, outcome # "reject")]
    /\ Select
    /\ UNCHANGED <<now, tz, lastWrite, app, txl, subl, fetches, issued>>
    /\ \E data \in IF outcome = "ok"
                     THEN OrderDesc(SelectRows(transactions, l.project, "all"))
                     ELSE {<<>>} :
        IF outcome = "reject"
        THEN AfterTask(l, [l EXCEPT !.recent = "rejected"], dash)
        ELSE AfterTask(l, [l EXCEPT !.recent = "done"],
                       [dash EXCEPT !.recentTransactions =
                           IF outcome = "ok" THEN Limit(data, RecentLimit) ELSE <<>>])

\* fetchChartData: the query for the rows since thirtyDaysAgo comes back
ChartReturns(l, outcome) ==
    /\ l \in loads
    /\ l.chart = "pending"
    /\ Answers(outcome)
    /\ shown' = [shown EXCEPT !.chart =
                    Came(@, CallOf(l.project, "all", l.since,
                                   IF outcome = "ok" THEN {} ELSE {"transactions"}),
                         outcome, outcome # "reject")]
    /\ Select
    /\ UNCHANGED <<now, tz, lastWrite, app, txl, subl, fetches, issued>>
    /\ \E data \in IF outcome = "ok"
                     THEN OrderAsc(SelectSince(transactions, l.project, l.since))
                     ELSE {<<>>} :
        IF outcome = "reject"
        THEN AfterTask(l, [l EXCEPT !.chart = "rejected"], dash)
        ELSE AfterTask(l, [l EXCEPT !.chart = "done"],
                       [dash EXCEPT !.chartData =
                           ChartDataOf(IF outcome = "ok" THEN Data(data) ELSE NullData)])

\* ------------------------------------------------------------ specifications
vars == <<now, projects, customers, transactions, subscriptions, otherTables,
          lastWrite, tz, app, dash, txl, subl, fetches, loads, issued, failures, shown>>

AllProjects == {[id |-> "p1", created_at |-> 1], [id |-> "p2", created_at |-> 0]}

\* the page before App's first effect has come back
ClientInit ==
    /\ app = InitialApp
    /\ dash = InitialDash
    /\ txl = InitialList
    /\ subl = InitialList
    /\ fetches = {}
    /\ loads = {}
    /\ issued = 0
    /\ failures = 0
    /\ shown = InitialShown

\* ---- the tables under INSERT and UPDATE of transactions
InitTransactions ==
    /\ now = Now0
    /\ tz = 0
    /\ projects = AllProjects
    /\ customers = ExampleCustomers
    /\ transactions = {}
    /\ subscriptions = {}
    /\ payment_gateways = ExampleGateways
    /\ daily_revenue_snapshots = {}
    /\ audit_log = {}
    /\ webhook_logs = {}
    /\ lastWrite = "none"
    /\ ClientInit

NextTransactions ==
    \/ \E in \in TxInsertInputs : InsertTransaction(in)
    \/ \E t \in transactions, u \in TxUpdateInputs : UpdateTransaction(t, u[1], u[2])

SpecTransactions == InitTransactions /\ [][NextTransactions]_vars

\* ---- the tables under INSERT and UPDATE of subscriptions
NextSubscriptions ==
    \/ \E in \in SubInsertInputs : InsertSubscription(in)
    \/ \E s \in subscriptions, u \in SubUpdateInputs : UpdateSubscription(s, u[1], u[2])

SpecSubscriptions == InitTransactions /\ [][NextSubscriptions]_vars

\* ---- the client reading a database the writers have filled
Day(k) == Now0 - k * TicksPerDay

\* project p2 holds the two transactions of the specification's example
ExampleTxs ==
    {TxRow("p2", NULL, 2, 1, "succeeded", 1000, 50, Day(1)),
     TxRow("p2", NULL, 2, 2, "failed", 500, 0, Day(1) + 1)}
\* project p1 holds a transaction older than the window, one on its first tick, one
\* dated ahead of the clock, one without a fee and one without a date
EdgeTxs ==
    {TxRow("p1", NULL, 1, 101, "pending", 500, 50, Day(WindowDays + 2)),
     TxRow("p1", NULL, 1, 102, "succeeded", 500, 0, Day(WindowDays)),
     TxRow("p1", NULL, 1, 103, "succeeded", 500, 50, Day(-3)),
     TxRow("p1", NULL, 1, 104, "succeeded", 1000, NULL, Day(2) + 1),
     TxRow("p1", NULL, 1, 105, "failed", 1000, 50, NULL)}
ExampleSubs ==
    {SubRow("p1", 1, 1, 1, "active", 900, Day(3)),
     SubRow("p1", 1, 1, 2, "canceled", 2000, Day(5)),
     SubRow("p1", 2, 1, 3, "active", 2000, Day(3)),
     SubRow("p2", 3, 2, 1, "past_due", 900, Day(1))}

Init ==
    /\ now = Now0
    /\ tz \in {0, 1}
    /\ projects \in {AllProjects, {}}
    /\ customers = IF projects = {} THEN {} ELSE ExampleCustomers
    /\ transactions = IF projects = {} THEN {} ELSE ExampleTxs \cup EdgeTxs
    /\ subscriptions = IF projects = {} THEN {} ELSE ExampleSubs
    /\ payment_gateways = IF projects = {} THEN {} ELSE ExampleGateways
    /\ daily_revenue_snapshots = {}
    /\ audit_log = {}
    /\ webhook_logs = {}
    /\ lastWrite = "none"
    /\ ClientInit

Next ==
    \/ \E o \in Outcomes : FetchProjectsReturns(o)
    \/ \E tab \in Tabs : SetActiveTab(tab)
    \/ \E p \in ProjectIds : SelectProject(p)
    \/ \E comp \in {"transactions", "subscriptions"}, f \in TxFilters \cup SubFilters :
          SetFilter(comp, f)
    \/ \E f \in fetches, o \in Outcomes : ListFetchReturns(f, o)
    \/ \E l \in loads, o \in Outcomes : StatsQueryReturns(l, o)
    \/ \E l \in loads, o \in Outcomes : RecentReturns(l, o)
    \/ \E l \in loads, o \in Outcomes : ChartReturns(l, o)

Spec == Init /\ [][Next]_vars

\* ---- the same, where every request gets a response: while a call is
\* pending, some pending call comes back sooner or later (what the user does
\* is left free)
Responds ==
    \/ \E o \in Outcomes : FetchProjectsReturns(o)
    \/ \E f \in fetches, o \in Outcomes : ListFetchReturns(f, o)
    \/ \E l \in loads, o \in Outcomes : StatsQueryReturns(l, o)
    \/ \E l \in loads, o \in Outcomes : RecentReturns(l, o)
    \/ \E l \in loads, o \in Outcomes : ChartReturns(l, o)

SpecFair == Spec /\ WF_vars(Responds)

\* ---- the Dashboard reading a project with up to MaxSeries transactions, one
\* every `stride` ticks back from the clock, every third one failed
MaxSeries == MaxBuckets + 2

SeriesTxs(n, stride) ==
    {TxRow("p1", NULL, 1, k, IF k % 3 = 1 THEN "failed" ELSE "succeeded", 1000, 50,
           Now0 - (k - 1) * stride) : k \in 1..n}

InitChart ==
    /\ now = Now0
    /\ tz \in {0, 1}
    /\ projects = AllProjects
    /\ customers = ExampleCustomers
    /\ \E n \in 0..MaxSeries, stride \in {1, TicksPerDay}, edge \in {{}, EdgeTxs} :
          transactions = SeriesTxs(n, stride) \cup edge
    /\ subscriptions = ExampleSubs
    /\ payment_gateways = ExampleGateways
    /\ daily_revenue_snapshots = {}
    /\ audit_log = {}
    /\ webhook_logs = {}
    /\ lastWrite = "none"
    /\ ClientInit

NextChart ==
    \/ \E o \in Outcomes : FetchProjectsReturns(o)
    \/ \E l \in loads, o \in Outcomes : StatsQueryReturns(l, o)
    \/ \E l \in loads, o \in Outcomes : RecentReturns(l, o)
    \/ \E l \in loads, o \in Outcomes : ChartReturns(l, o)

SpecChart == InitChart /\ [][NextChart]_vars

\* ---- the tables of two tenants under INSERT and DELETE FROM projects.  A row
\* may name a customer or a gateway of another project: the foreign keys ask
\* only that the id exists
TxRefInputs ==
    {TxInput(p, c, g, 1, "succeeded", 1000, DEFAULT, DEFAULT, DEFAULT) :
        p \in ProjectIds, c \in {NULL, 1}, g \in {1, 2}}
SubRefInputs ==
    {SubInput(p, c, GatewayOf(p), 1, "active", 900, DEFAULT) :
        p \in ProjectIds, c \in {1, 3}}

InitTenancy ==
    /\ now = Now0
    /\ tz = 0
    /\ projects = AllProjects
    /\ customers = ExampleCustomers
    /\ transactions = {}
    /\ subscriptions = {}
    /\ payment_gateways = ExampleGateways
    /\ daily_revenue_snapshots = {}
    /\ audit_log = {}
    /\ webhook_logs = {}
    /\ lastWrite = "none"
    /\ ClientInit

NextTenancy ==
    \/ \E in \in TxRefInputs : InsertTransaction(in)
    \/ \E in \in SubRefInputs : InsertSubscription(in)
    \/ \E p \in ProjectIds : InsertSnapshot(SnapshotInput(p, 1, "total_revenue", 7))
    \/ \E p \in ProjectIds : InsertAuditLog(p)
    \/ \E p \in ProjectIds : InsertWebhookLog(p)
    \/ \E p \in ProjectIds : DeleteProject(p)

SpecTenancy == InitTenancy /\ [][NextTenancy]_vars


\* ---- customers, transactions and subscriptions under INSERT, from empty
\* tables: the rows differ in their keys and in what they refer to
KeyTxInputs ==
    {TxInput(k[1], NULL, GatewayOf(k[1]), k[2], "succeeded", 1000, DEFAULT,
             DEFAULT, DEFAULT) : k \in TxKeys}
KeySubInputs ==
    {SubInput(k[1], c, GatewayOf(k[1]), k[2], st, 900, DEFAULT) :
        k \in TxKeys, c \in {1, 2}, st \in SubStatusInputs}

InitKeys ==
    /\ now = Now0
    /\ tz = 0
    /\ projects = AllProjects
    /\ customers = {}
    /\ transactions = {}
    /\ subscriptions = {}
    /\ payment_gateways = ExampleGateways
    /\ daily_revenue_snapshots = {}
    /\ audit_log = {}
    /\ webhook_logs = {}
    /\ lastWrite = "none"
    /\ ClientInit

NextKeys ==
    \/ \E in \in CustomerInsertInputs : InsertCustomer(in[1], in[2])
    \/ \E in \in KeyTxInputs : InsertTransaction(in)
    \/ \E in \in KeySubInputs : InsertSubscription(in)

SpecKeys == InitKeys /\ [][NextKeys]_vars


\* ---- daily_revenue_snapshots under INSERT
NextSnapshots == \E in \in SnapshotInsertInputs : InsertSnapshot(in)

SpecSnapshots == InitTenancy /\ [][NextSnapshots]_vars


\* ================================================================ properties
\* plain sums, for stating what a total should be
RECURSIVE SumAmounts(_)
SumAmounts(S) ==
    IF S = {} THEN 0
    ELSE LET r == CHOOSE x \in S : TRUE IN r.amount + SumAmounts(S \ {r})

RECURSIVE SumFees(_)
SumFees(S) ==
    IF S = {} THEN 0
    ELSE LET r == CHOOSE x \in S : TRUE
         IN (IF r.fee_amount = NULL THEN 0 ELSE r.fee_amount) + SumFees(S \ {r})

RECURSIVE SumRevenue(_)
SumRevenue(S) ==
    IF S = {} THEN 0
    ELSE LET r == CHOOSE x \in S : TRUE IN r.total_revenue + SumRevenue(S \ {r})

\* C1: in every state of the table, whatever inserts and updates were accepted,
\* each transaction row's net_amount is amount - fee_amount (NULL when
\* fee_amount is NULL, as SQL subtraction gives)
C1_NetAmountDerived ==
    \A t \in transactions :
        IF t.fee_amount = NULL THEN t.net_amount = NULL
        ELSE t.net_amount = t.amount - t.fee_amount

\* an accepted write left a row whose fee is not zero
C1_Witness ==
    /\ lastWrite = "ok"
    /\ \E t \in transactions : t.amount = 1000 /\ t.fee_amount = 50 /\ t.net_amount = 950

\* C2: for every project, the total_revenue of its rows in
\* monthly_revenue_by_project adds up to the amounts of its succeeded transactions
C2_MonthlyRevenueTotal ==
    \A p \in ProjectIds :
        SumRevenue({r \in monthly_revenue_by_project : r.project_id = p})
          = SumAmounts({t \in transactions :
                           t.project_id = p /\ t.status = "succeeded"})

\* a project with rows in two months, a succeeded and a failed transaction
C2_Witness ==
    \E p \in ProjectIds :
        /\ Cardinality({r \in monthly_revenue_by_project : r.project_id = p}) = 2
        /\ \E t \in transactions :
              t.project_id = p /\ t.status = "succeeded" /\ t.amount > 0
        /\ \E t \in transactions :
              t.project_id = p /\ t.status = "failed" /\ t.amount > 0

\* C3: the mrr of a project's row in active_subscriptions_by_project, and the
\* stats.mrr that fetchStats computes from its subscriptions query when the
\* query returns rows, both equal the sum of amount over the project's
\* subscriptions with status 'active'
C3_MrrIsActiveSum ==
    \A p \in ProjectIds :
        LET active == {s \in subscriptions : s.project_id = p /\ s.status = "active"}
            answer == Data(TableOrder(SelectRows(subscriptions, p, "active")))
        IN  /\ \A r \in active_subscriptions_by_project :
                  r.project_id = p => r.mrr = SumAmounts(active)
            /\ StatsOf(NullData, NullData, answer).mrr = SumAmounts(active)

\* a project with an active and a canceled subscription, and a row in the view
C3_Witness ==
    \E p \in ProjectIds :
        /\ \E r \in active_subscriptions_by_project : r.project_id = p /\ r.mrr > 0
        /\ \E s \in subscriptions : s.project_id = p /\ s.status = "active"
        /\ \E s \in subscriptions : s.project_id = p /\ s.status = "canceled"

\* C4: once fetchStats has set the stats from three answered queries of a
\* project, totalRevenue is the sum of amount and totalFees the sum of
\* fee_amount over the project's succeeded transactions, netRevenue is their
\* difference and totalTransactions counts all the project's transactions
C4_StatsTotals ==
    LET p == shown.stats.from.project
        all == {t \in transactions : t.project_id = p}
        succeeded == {t \in all : t.status = "succeeded"}
    IN  (p # NoProject /\ shown.stats.from.nulls = {}) =>
            /\ dash.stats.totalRevenue = SumAmounts(succeeded)
            /\ dash.stats.totalFees = SumFees(succeeded)
            /\ dash.stats.netRevenue = SumAmounts(succeeded) - SumFees(succeeded)
            /\ dash.stats.totalTransactions = Cardinality(all)

\* the stats of the project with {1000, 50, succeeded} and {500, 0, failed}
C4_Witness ==
    /\ shown.stats.from = CallOf("p2", "all", 0, {})
    /\ shown.stats.last = "ok"
    /\ dash.stats.totalRevenue = 1000
    /\ dash.stats.totalFees = 50
    /\ dash.stats.netRevenue = 950
    /\ dash.stats.totalTransactions = 2

\* C5: chartData never holds more than MaxBuckets buckets; after a
\* fetchChartData whose rows fall on n distinct days it holds min(MaxBuckets, n)
\* buckets, one for each of the latest days, in ascending date order
C5_ChartLatestDays ==
    LET c == shown.chart.from
        chart == dash.chartData
        fetched == {t \in transactions :
                       /\ t.project_id = c.project
                       /\ t.created_at # NULL
                       /\ t.created_at >= c.since}
        days == {LocalDate(t.created_at) : t \in fetched}
        n == Cardinality(days)
        latest == {d \in days : Cardinality({e \in days : e > d}) < MaxBuckets}
    IN  /\ Len(chart) <= MaxBuckets
        /\ (c.project # NoProject /\ c.nulls = {}) =>
              /\ Len(chart) = (IF n < MaxBuckets THEN n ELSE MaxBuckets)
              /\ {chart[i].date : i \in 1..Len(chart)} = latest
              /\ \A i, j \in 1..Len(chart) : i < j => chart[i].date < chart[j].date

\* a chart cut to MaxBuckets buckets: the fetched rows fall on more days
C5_Witness ==
    LET c == shown.chart.from
        fetched == {t \in transactions :
                       /\ t.project_id = c.project
                       /\ t.created_at # NULL
                       /\ t.created_at >= c.since}
    IN  /\ c.project # NoProject
        /\ shown.chart.last = "ok"
        /\ Len(dash.chartData) = MaxBuckets
        /\ Cardinality({LocalDate(t.created_at) : t \in fetched}) > MaxBuckets
        /\ Cardinality(fetched) > Cardinality({LocalDate(t.created_at) : t \in fetched})

\* C6: every bucket of chartData carries a date inside the 30 days that end
\* at the moment fetchChartData was called
C6_BucketsInsideWindow ==
    LET c == shown.chart.from
        chart == dash.chartData
        called == c.since + WindowDays * TicksPerDay
    IN  (c.project # NoProject /\ c.nulls = {}) =>
            \A i \in 1..Len(chart) :
                /\ LocalDate(c.since) <= chart[i].date
                /\ chart[i].date <= LocalDate(called)

\* C7: the rows a list holds from a fetch issued for project p with filter f
\* are exactly the rows of p (those with status f, unless f is 'all'), each
\* once, newest created_at first; no row of another project is among them
C7_ListRowsMatchCall ==
    LET c == shown.rows.from
        rows == IF app.activeTab = "transactions" THEN txl.rows ELSE subl.rows
        table == IF app.activeTab = "transactions" THEN transactions ELSE subscriptions
        wanted == {r \in table :
                      r.project_id = c.project /\ (c.filter = "all" \/ r.status = c.filter)}
    IN  c.project # NoProject =>
            /\ {rows[i] : i \in 1..Len(rows)} = wanted
            /\ Len(rows) = Cardinality(wanted)
            /\ \A i \in 1..Len(rows) : rows[i].project_id = c.project
            /\ \A i, j \in 1..Len(rows) :
                  i < j => \/ rows[i].created_at = NULL
                           \/ /\ rows[j].created_at # NULL
                              /\ rows[i].created_at >= rows[j].created_at

\* a list filtered by a status, holding some but not all rows of its project
C7_Witness ==
    LET c == shown.rows.from
        rows == IF app.activeTab = "transactions" THEN txl.rows ELSE subl.rows
        table == IF app.activeTab = "transactions" THEN transactions ELSE subscriptions
    IN  /\ c.project # NoProject
        /\ c.filter # "all"
        /\ shown.rows.last = "ok"
        /\ Len(rows) > 1
        /\ \E r \in table : r.project_id = c.project /\ r.status # c.filter
        /\ \E r \in table : r.project_id # c.project

\* a slot whose fetch failed: its last call came back with an error or was
\* rejected, or one of the queries it was set from came back with data: null
Failed(slot) == slot.last \in {"error", "reject"} \/ slot.from.nulls # {}

\* C8: after a fetch that failed (a query came back with an error, or the
\* request rejected) the view holds an empty result set: a list no rows, the
\* Dashboard zeroed stats, no recent transactions and no chart buckets
C8_FailedFetchLeavesEmpty ==
    /\ Failed(shown.rows) => (txl.rows = <<>> /\ subl.rows = <<>>)
    /\ ( /\ loads = {}
         /\ Failed(shown.stats) \/ Failed(shown.recent) \/ Failed(shown.chart) )
       => /\ dash.stats = InitialStats
          /\ dash.recentTransactions = <<>>
          /\ dash.chartData = <<>>

\* what C9 speaks of: a fetch under way, the flags cleared, the step that ends a
\* fetch, a failing step that starts no call
FetchUnderWay ==
    app.fetching \/ fetches # {} \/ \E l \in loads : ~l.settled

LoadingCleared ==
    /\ ~FetchUnderWay
    /\ ~app.loading
    /\ Mounted(app, "overview") => ~dash.loading
    /\ Mounted(app, "transactions") => ~txl.loading
    /\ Mounted(app, "subscriptions") => ~subl.loading

EndingStepClearsFlag ==
    /\ (app.fetching /\ ~app'.fetching) => ~app'.loading
    /\ \A f \in fetches :
          (f \notin fetches' /\ app' = app) =>
              IF f.comp = "transactions" THEN ~txl'.loading ELSE ~subl'.loading
    /\ \A l \in loads :
          (/\ ~l.settled
           /\ app' = app
           /\ \A m \in loads' : m.id = l.id => m.settled) => ~dash'.loading

NoRetry ==
    failures' > failures =>
        /\ issued' = issued
        /\ fetches' \subseteq fetches
        /\ {l.id : l \in loads'} \subseteq {l.id : l \in loads}
        /\ ~app'.fetching

\* C9: when every request gets a response, a fetch under way (fetchProjects,
\* fetchDashboardData, fetchTransactions, fetchSubscriptions) leads to a state
\* with no fetch under way and the loading flag of App and of the component it
\* shows at false; the step that ends a fetch, whatever the outcome, sets the
\* flag of its component to false; and a step on which a query fails starts no
\* further call
C9_FetchesEndNotLoading ==
    /\ FetchUnderWay ~> LoadingCleared
    /\ [][EndingStepClearsFlag /\ NoRetry]_vars

\* a list whose fetch failed: nothing under way, the flag cleared
C9_Witness ==
    /\ shown.rows.last \in {"error", "reject"}
    /\ failures > 0
    /\ LoadingCleared

\* C10: no step of the client (App load, project selection, tab switch, filter
\* change, any query coming back) changes a row of projects, customers,
\* transactions or subscriptions
C10_ClientLeavesTablesAlone == [][dbVars' = dbVars]_vars

\* rows are on display, read by fetches that came back, and the tables still
\* hold what the writers put there
C10_Witness ==
    /\ issued > 1
    /\ Len(txl.rows) > 0 \/ Len(subl.rows) > 0 \/ Len(dash.recentTransactions) > 0
    /\ transactions = ExampleTxs \cup EdgeTxs
    /\ subscriptions = ExampleSubs

\* every project_id, customer_id and gateway_id names a row that exists
NoDanglingReference ==
    LET pids == {q.id : q \in projects}
        cids == {c.id : c \in customers}
        gids == {g.id : g \in payment_gateways}
    IN  /\ \A r \in customers \cup transactions \cup subscriptions
                   \cup payment_gateways \cup daily_revenue_snapshots
                   \cup audit_log \cup webhook_logs : r.project_id \in pids
        /\ \A r \in transactions \cup subscriptions :
              /\ r.customer_id = NULL \/ r.customer_id \in cids
              /\ r.gateway_id \in gids

\* the step removed project p and exactly the rows of p
Cascaded(p) ==
    /\ projects' = {q \in projects : q.id # p}
    /\ customers' = customers \ OfProject(customers, p)
    /\ payment_gateways' = payment_gateways \ OfProject(payment_gateways, p)
    /\ transactions' = transactions \ OfProject(transactions, p)
    /\ subscriptions' = subscriptions \ OfProject(subscriptions, p)
    /\ daily_revenue_snapshots' =
           daily_revenue_snapshots \ OfProject(daily_revenue_snapshots, p)
    /\ audit_log' = audit_log \ OfProject(audit_log, p)
    /\ webhook_logs' = webhook_logs \ OfProject(webhook_logs, p)

\* C11: every DELETE of a project succeeds and removes the project with exactly
\* the rows of the seven tables whose project_id it is, the rows of other
\* projects stay as they are, and no state holds a row that references a
\* missing project, customer or gateway
C11_DeleteProjectCascades ==
    /\ []NoDanglingReference
    /\ [][\A p \in ProjectIds : DeleteProject(p) => Cascaded(p)]_vars

\* the rows of a table that hold the pair (p, e)
Holding(rows, p, e) == {r \in rows : r.project_id = p /\ r.external_id = e}

\* no two rows of the table have the same project and the same external id;
\* a row whose external_id is NULL has no external id to share
KeysUnique(rows) ==
    \A r \in rows :
        r.external_id # NULL => Holding(rows, r.project_id, r.external_id) = {r}

\* C12: in every state no two customers, no two transactions and no two
\* subscriptions of one project share an external_id, and an INSERT of a
\* (project_id, external_id) pair that a row of the table already holds is
\* rejected and leaves the table as it was
C12_ExternalIdUniquePerProject ==
    /\ [](KeysUnique(customers) /\ KeysUnique(transactions) /\ KeysUnique(subscriptions))
    /\ [][/\ \A in \in CustomerInsertInputs :
                (/\ InsertCustomer(in[1], in[2])
                 /\ in[2] # NULL
                 /\ Holding(customers, in[1], in[2]) # {})
                    => customers' = customers /\ lastWrite' = "rejected"
          /\ \A in \in KeyTxInputs :
                (/\ InsertTransaction(in)
                 /\ Holding(transactions, in.project_id, in.external_id) # {})
                    => transactions' = transactions /\ lastWrite' = "rejected"
          /\ \A in \in KeySubInputs :
                (/\ InsertSubscription(in)
                 /\ Holding(subscriptions, in.project_id, in.external_id) # {})
                    => subscriptions' = subscriptions /\ lastWrite' = "rejected"
         ]_vars

\* an insert was just rejected while each of the three tables holds the
\* external id 1 once in p1 and once in p2
C12_Witness ==
    /\ lastWrite = "rejected"
    /\ \A p \in ProjectIds :
          /\ Cardinality(Holding(customers, p, 1)) = 1
          /\ Cardinality(Holding(transactions, p, 1)) = 1
          /\ Cardinality(Holding(subscriptions, p, 1)) = 1

\* C13: in every state each transaction's amount, fee_amount and net_amount is
\* an integer >= 0 (a NULL, where the column allows one, is let pass) and each
\* subscription's amount is an integer > 0
C13_AmountsNonNegative ==
    /\ \A t \in transactions :
          /\ t.amount # NULL /\ t.amount >= 0
          /\ t.fee_amount = NULL \/ t.fee_amount >= 0
          /\ t.net_amount = NULL \/ t.net_amount >= 0
    /\ \A s \in subscriptions : s.amount # NULL /\ s.amount > 0

\* C14: in every state each daily_revenue_snapshots row has its eight counters
\* non-negative (a NULL is let pass), and no two rows have the same project_id
\* and date
C14_SnapshotCountersNonNegative ==
    /\ \A r \in daily_revenue_snapshots :
          \A c \in Counters : r.counters[c] = NULL \/ r.counters[c] >= 0
    /\ \A r, q \in daily_revenue_snapshots :
          (r.project_id = q.project_id /\ r.date = q.date) => r = q

\* the project and filter the mounted list shows now
Selected ==
    CallOf(app.selectedProject,
           IF app.activeTab = "transactions" THEN txl.filter ELSE subl.filter, 0, {})

\* C15: a change of project or filter in the mounted component leaves every
\* pending fetchTransactions / fetchSubscriptions / fetchDashboardData call
\* pending next to the new one, and a list response that comes back without
\* error sets the rows whatever is selected by then
C15_ChangeCancelsNothing ==
    /\ [][(issued' = issued + 1 /\ app'.activeTab = app.activeTab)
             => (fetches \subseteq fetches' /\ loads \subseteq loads')]_vars
    /\ [][\A f \in fetches :
             ListFetchReturns(f, "ok")
                => shown'.rows.from = CallOf(f.project, f.filter, 0, {})]_vars

\* no fetch is pending and the list shows rows fetched for another filter than
\* the selected one
C15_Witness ==
    /\ app.activeTab \in {"transactions", "subscriptions"}
    /\ fetches = {}
    /\ shown.rows.last = "ok"
    /\ shown.rows.from.project = Selected.project
    /\ shown.rows.from.filter # Selected.filter

\* C16: a fetchDashboardData call has run its setLoading(false) only when its
\* fetchStats, fetchRecentTransactions and fetchChartData are all over, each
\* fulfilled or rejected
C16_LoadingFalseAfterAllFetches ==
    \A l \in loads : l.settled => LoadOver(l)

\* the queries a pending fetchDashboardData call has sent so far: the three
\* tasks start together, fetchStats sends its next query when the one before
\* has come back
QueriesSent(l) ==
    {"recent", "chart", "transactions"}
    \cup (IF l.stats \in {"customers", "subscriptions", "done"}
          THEN {"customers"} ELSE {})
    \cup (IF l.stats \in {"subscriptions", "done"} THEN {"subscriptions"} ELSE {})

\* C17: while a query of a fetchDashboardData call awaits its response, the
\* call's five queries (transactions, customers and active subscriptions of
\* the stats, recent transactions, trend transactions) have all been sent
C17_QueriesSentTogether ==
    \A l \in loads :
        l.stats # "rejected" =>
            QueriesSent(l) =
                {"transactions", "customers", "subscriptions", "recent", "chart"}

\* the months the timestamps of the model fall in
Months == 0..((Now0 \div TicksPerDay) \div DaysPerMonth + 1)
\* timestamp ts lies in month m
InMonth(ts, m) ==
    /\ ts # NULL
    /\ m * DaysPerMonth * TicksPerDay <= ts
    /\ ts < (m + 1) * DaysPerMonth * TicksPerDay
\* the transactions of project p created in month m
CreatedIn(p, m) == {t \in transactions : t.project_id = p /\ InMonth(t.created_at, m)}

\* C18: monthly_revenue_by_project has a row for project p and month m exactly
\* when p has a transaction, of whatever status, created in m (so none at all
\* for a project without transactions), and the row of a month whose
\* transactions are all non-succeeded has total_revenue, total_fees and
\* net_revenue 0
C18_MonthlyRowPerActiveMonth ==
    LET view == monthly_revenue_by_project IN
    \A p \in ProjectIds, m \in Months :
        LET rows == {r \in view : r.project_id = p /\ r.month = m}
            created == CreatedIn(p, m)
        IN  /\ IF created = {} THEN rows = {} ELSE Cardinality(rows) = 1
            /\ (\A t \in created : t.status # "succeeded") =>
                  \A r \in rows : /\ r.total_revenue = 0
                                  /\ r.total_fees = 0
                                  /\ r.net_revenue = 0

\* one project has a month with failed transactions only, and its row with
\* zero totals, while the other project has no transaction and no row
C18_Witness ==
    \E p, q \in ProjectIds :
        /\ \E m \in Months :
              /\ \E t \in CreatedIn(p, m) : t.status = "failed" /\ t.amount > 0
              /\ \A t \in CreatedIn(p, m) : t.status = "failed"
              /\ \E r \in monthly_revenue_by_project :
                    /\ r.project_id = p /\ r.month = m
                    /\ r.total_revenue = 0 /\ r.total_fees = 0 /\ r.net_revenue = 0
        /\ {t \in transactions : t.project_id = q} = {}
        /\ {r \in monthly_revenue_by_project : r.project_id = q} = {}

\* the days the timestamps of the model fall on, in the viewer's time zone
Days == -1..(Now0 \div TicksPerDay + 4)
\* the rows of `fetched` whose created_at is on day d of the viewer's calendar
OnDay(fetched, d) ==
    {t \in fetched : d * TicksPerDay <= t.created_at + tz
                        /\ t.created_at + tz < (d + 1) * TicksPerDay}

\* C19: for the rows a fetchChartData call fetches, in whatever order equal
\* timestamps come, the grouping step makes one bucket for each day on which a
\* fetched transaction of any status falls and none for any other day, and a
\* bucket's revenue (in hundredths) is the sum of amount over the succeeded
\* transactions of its day: 0 when the day has none
C19_BucketPerDayFetched ==
    \A p \in ProjectIds :
        LET fetched == SelectSince(transactions, p, ThirtyDaysAgo(now)) IN
        \A data \in OrderAsc(fetched) :
            LET buckets == GroupedByDay(data) IN
            /\ \A d \in Days :
                  Cardinality({i \in 1..Len(buckets) : buckets[i].date = d})
                      = (IF OnDay(fetched, d) = {} THEN 0 ELSE 1)
            /\ \A i \in 1..Len(buckets) :
                  /\ buckets[i].date \in Days
                  /\ buckets[i].revenue =
                        SumAmounts({t \in OnDay(fetched, buckets[i].date) :
                                       t.status = "succeeded"})

\* the chart shows a bucket with revenue 0 for a day that has a failed
\* transaction and none that succeeded, next to a bucket with revenue
C19_Witness ==
    /\ shown.chart.last = "ok"
    /\ \E i, j \in 1..Len(dash.chartData) :
          LET day == OnDay({t \in transactions :
                               t.project_id = shown.chart.from.project},
                           dash.chartData[i].date)
          IN  /\ dash.chartData[i].revenue = 0
              /\ \E t \in day : t.status = "failed" /\ t.amount > 0
              /\ \A t \in day : t.status # "succeeded"
              /\ dash.chartData[j].revenue > 0

\* the customers of project p, and those of them some active subscription names
CustomersOf(p) == {c \in customers : c.project_id = p}
Subscribed(p) ==
    {c \in CustomersOf(p) :
        \E s \in subscriptions : s.customer_id = c.id /\ s.status = "active"}

\* C20: for every project with a customer, customer_stats_by_project has one
\* row, whose total_customers is the number of the project's customers and
\* whose customers_with_subscriptions is the number of them that have a
\* subscription with status 'active'
C20_CustomerStats ==
    LET view == customer_stats_by_project IN
    \A p \in ProjectIds :
        CustomersOf(p) # {} =>
            /\ Cardinality({r \in view : r.project_id = p}) = 1
            /\ \A r \in view :
                  r.project_id = p =>
                      /\ r.total_customers = Cardinality(CustomersOf(p))
                      /\ r.customers_with_subscriptions = Cardinality(Subscribed(p))

\* a project with a customer that has two active subscriptions and a customer
\* that has none: two customers, one of them with subscriptions
C20_Witness ==
    \E p \in ProjectIds, r \in customer_stats_by_project :
        /\ r.project_id = p
        /\ r.total_customers = 2
        /\ r.customers_with_subscriptions = 1
        /\ \E c \in CustomersOf(p) :
              Cardinality({s \in subscriptions :
                              s.customer_id = c.id /\ s.status = "active"}) = 2

\* the sum of column col over the rows of a view, NULLs skipped
RECURSIVE SumColumn(_, _)
SumColumn(rows, col) ==
    IF rows = {} THEN 0
    ELSE LET r == CHOOSE x \in rows : TRUE
         IN  (IF r[col] = NULL THEN 0 ELSE r[col]) + SumColumn(rows \ {r}, col)

\* the stats fetchStats sets for project p when its three queries are answered
\* from the tables as they are
StatsFor(p) ==
    StatsOf(Data(TableOrder(SelectRows(transactions, p, "all"))),
            Data(TableOrder(SelectRows(customers, p, "all"))),
            Data(TableOrder(SelectRows(subscriptions, p, "active"))))

\* C21: for every project, the totalRevenue, totalFees and netRevenue that
\* fetchStats computes from the tables equal the sums of total_revenue,
\* total_fees and net_revenue over the project's rows of
\* monthly_revenue_by_project, and its mrr and activeSubscriptions equal mrr and
\* total_active of the project's row of active_subscriptions_by_project, 0
\* when there is no row
C21_StatsAgreeWithViews ==
    \A p \in ProjectIds :
        LET stats == StatsFor(p)
            monthly == {r \in monthly_revenue_by_project : r.project_id = p}
            active == {r \in active_subscriptions_by_project : r.project_id = p}
        IN  /\ stats.totalRevenue = SumColumn(monthly, "total_revenue")
            /\ stats.totalFees = SumColumn(monthly, "total_fees")
            /\ stats.netRevenue = SumColumn(monthly, "net_revenue")
            /\ stats.mrr = SumColumn(active, "mrr")
            /\ stats.activeSubscriptions = SumColumn(active, "total_active")
            /\ Cardinality(active) <= 1

\* C22: every row of monthly_revenue_by_project whose total_fees and
\* net_revenue are not NULL has net_revenue = total_revenue - total_fees
C22_MonthlyNetIsRevenueMinusFees ==
    \A r \in monthly_revenue_by_project :
        \/ r.total_fees = NULL
        \/ r.net_revenue = NULL
        \/ r.net_revenue = r.total_revenue - r.total_fees

\* C23: whenever a fetchTransactions or fetchSubscriptions call of the mounted
\* list has not come back, or a fetchDashboardData call of the mounted
\* Dashboard has not reached its `finally`, that component's loading flag is
\* true
C23_LoadingWhileFetchInFlight ==
    /\ (\E f \in fetches : f.comp = "transactions") => txl.loading
    /\ (\E f \in fetches : f.comp = "subscriptions") => subl.loading
    /\ (\E l \in loads : ~l.settled) => dash.loading

====
